---- MODULE Spec2Model ----
(***************************************************************************)
(* Model of portainer-stack-deploy: the environment-variable merger, the   *)
(* image rewrite of generateNewStackDefinition and the create-or-update    *)
(* reconciliation of deployStack against the Portainer API client.         *)
(*                                                                         *)
(* Texts (documents, image references) are sequences of one-character      *)
(* strings, so that the regular expression of the image rewrite is run     *)
(* character by character.                                                 *)
(***************************************************************************)
EXTENDS Integers, Sequences, FiniteSets, TLC

VARIABLES
  \* ---- deployStack ----
  pc,                       \* position inside deployStack
  input,                    \* the DeployStack argument
  world,                    \* what JSON.parse, the file system and Handlebars answer
  stackDefinitionToDeploy,  \* result of generateNewStackDefinition
  allStacks,                \* result of portainerApi.getStacks()
  existingStack,            \* result of allStacks.find(...)
  calls,                    \* the PortainerApi calls issued so far, in order
  authorization,            \* axiosInstance.defaults.headers.common['Authorization']
  error,                    \* the error thrown; at pc = "done", the one that left deployStack
  \* ---- image rewrite ----
  rwDoc, rwImage, rwOnce, rwTwice, rwN,
  \* ---- mergeEnvVariables ----
  original, updates, merged, mergePc,
  \* ---- parseEnvVariables ----
  envText, parsed, parsePc

deployVars ==
  <<pc, input, world, stackDefinitionToDeploy, allStacks, existingStack, calls, authorization, error>>
rewriteVars == <<rwDoc, rwImage, rwOnce, rwTwice, rwN>>
mergeVars == <<original, updates, merged, mergePc>>
parseVars == <<envText, parsed, parsePc>>
vars == <<deployVars, rewriteVars, mergeVars, parseVars>>

(***************************************************************************)
(* Bounds of the model.                                                    *)
(***************************************************************************)
MaxTokens == 5    \* tokens of a generated document
MaxOriginal == 3  \* entries of a generated `original` sequence
MaxUpdates == 2   \* entries of a generated `updates` sequence
MaxStacks == 2    \* stacks in a getStacks response
MaxEnvTokens == 5 \* tokens of a generated env-variables text

(***************************************************************************)
(* Optional values: `x?: T` of the TypeScript source.                      *)
(***************************************************************************)
Undefined == [defined |-> FALSE, val |-> <<>>]
Some(v) == [defined |-> TRUE, val |-> v]

(***************************************************************************)
(* mergeEnvVariables: a JavaScript Map keeps the insertion order of its    *)
(* keys; set() on a present key replaces the value in place.               *)
(***************************************************************************)
EnvNames == {"A", "B", "C"}
EnvValues == {"1", "2"}
EnvVariable == [name : EnvNames, value : EnvValues]

RECURSIVE SeqsUpTo(_, _)
SeqsUpTo(S, n) ==
  IF n = 0 THEN {<<>>}
  ELSE LET shorter == SeqsUpTo(S, n - 1)
       IN shorter \cup {Append(s, x) : s \in {t \in shorter : Len(t) = n - 1}, x \in S}

MapHas(m, k) == \E i \in 1..Len(m) : m[i].name = k

MapSetKeepFirst(m, k, v) ==
  IF MapHas(m, k) THEN m ELSE Append(m, [name |-> k, value |-> v])

MapSetMoveToEnd(m, k, v) ==
  Append(SelectSeq(m, LAMBDA e : e.name # k), [name |-> k, value |-> v])

\* Map.prototype.set
MapSet(m, k, v) ==
  IF MapHas(m, k)
  THEN [i \in 1..Len(m) |-> IF m[i].name = k THEN [name |-> k, value |-> v] ELSE m[i]]
  ELSE Append(m, [name |-> k, value |-> v])

RECURSIVE SetAll(_, _)
SetAll(m, variables) ==
  IF variables = <<>> THEN m
  ELSE SetAll(MapSet(m, Head(variables).name, Head(variables).value), Tail(variables))

mergeEnvVariablesUpdatesOnly(orig, upd) == SetAll(<<>>, upd)

\* lines 45-60
mergeEnvVariables(orig, upd) == SetAll(SetAll(<<>>, orig), upd)

(***************************************************************************)
(* Texts and the JavaScript string methods used by the image rewrite.      *)
(***************************************************************************)
Str(tokens) ==
  LET F[i \in 0..Len(tokens)] == IF i = 0 THEN <<>> ELSE F[i - 1] \o tokens[i]
  IN F[Len(tokens)]

Min(a, b) == IF a < b THEN a ELSE b
Max(a, b) == IF a > b THEN a ELSE b

\* String.prototype.indexOf: zero-based index of the first occurrence, or -1
IndexOf(s, c) ==
  IF \E i \in 1..Len(s) : s[i] = c
  THEN (CHOOSE i \in 1..Len(s) : s[i] = c /\ \A j \in 1..(i - 1) : s[j] # c) - 1
  ELSE -1

\* String.prototype.substring(start, end): both arguments are clamped to
\* 0..length and swapped when start > end
Substring(s, start, end) ==
  LET a == Max(0, Min(start, Len(s)))
      b == Max(0, Min(end, Len(s)))
  IN SubSeq(s, Min(a, b) + 1, Max(a, b))

\* the characters of the character class of line 91
RegexMeta == {".", "*", "+", "?", "^", "$", "{", "}", "(", ")", "|", "[", "]", "\\"}

\* the replace of line 91: a backslash before each of them
RECURSIVE EscapeRegExp(_)
EscapeRegExp(s) ==
  IF s = <<>> THEN <<>>
  ELSE (IF Head(s) \in RegexMeta THEN <<"\\", Head(s)>> ELSE <<Head(s)>>)
       \o EscapeRegExp(Tail(s))

\* the atoms new RegExp reads from an escaped pattern source: `\c` is the
\* literal c, an unescaped `.` is any character but a line terminator, any
\* other character is itself
RECURSIVE PatternAtoms(_)
PatternAtoms(src) ==
  IF src = <<>> THEN <<>>
  ELSE IF Head(src) = "\\" /\ Len(src) >= 2
       THEN <<[kind |-> "lit", ch |-> src[2]]>> \o PatternAtoms(Tail(Tail(src)))
       ELSE IF Head(src) = "."
            THEN <<[kind |-> "any", ch |-> "."]>> \o PatternAtoms(Tail(src))
            ELSE <<[kind |-> "lit", ch |-> Head(src)]>> \o PatternAtoms(Tail(src))

Whitespace == {" ", "\n", "\t"}      \* \s, over the characters of the model
LineTerminators == {"\n"}            \* what ^ follows with the m flag
Quotes == {"'", "\""}                \* ['"]
Keyword == <<"i", "m", "a", "g", "e", ":">>

AtomMatches(atom, c) ==
  IF atom.kind = "any" THEN c \notin LineTerminators ELSE c = atom.ch

AtomsMatchAt(d, p, atoms) ==
  /\ p + Len(atoms) - 1 <= Len(d)
  /\ \A i \in 1..Len(atoms) : AtomMatches(atoms[i], d[p + i - 1])

HasAt(d, p, lit) ==
  /\ p + Len(lit) - 1 <= Len(d)
  /\ \A i \in 1..Len(lit) : d[p + i - 1] = lit[i]

\* first position >= p that holds no character of S (Len(d) + 1 if none)
SkipWhile(d, p, S) ==
  LET stop == {i \in p..Len(d) : d[i] \notin S}
  IN IF stop = {} THEN Max(p, Len(d) + 1)
     ELSE CHOOSE i \in stop : \A j \in stop : i <= j

SkipNonQuote(d, p) ==
  LET stop == {i \in p..Len(d) : d[i] \in Quotes}
  IN IF stop = {} THEN Max(p, Len(d) + 1)
     ELSE CHOOSE i \in stop : \A j \in stop : i <= j

LineStart(d, p) == p = 1 \/ d[p - 1] \in LineTerminators

NoMatch == [ok |-> FALSE, prefix |-> <<>>, close |-> <<>>, end |-> 0]

\* One attempt, at position p of d (1-based), of the expression of line 92:
\* line start, group 1 = whitespace, `image:`, whitespace, an optional quote;
\* then the repository; optional group 2 = a colon and every following
\* character that is not a quote (line breaks included); group 3 = an optional
\* quote. Every quantifier is greedy; the engine backtracks over the second
\* whitespace run and the opening quote until the repository matches, and
\* what follows the repository is optional, so it never fails.
MatchAt(d, p, atoms) ==
  LET w1 == SkipWhile(d, p, Whitespace)
  IN IF ~(LineStart(d, p) /\ HasAt(d, w1, Keyword)) THEN NoMatch
     ELSE
       LET a == w1 + Len(Keyword)
           w2 == SkipWhile(d, a, Whitespace)
           \* <<k, q>>: the second \s* ends before k, q = 1 when the quote is taken
           cands == {c \in (a..w2) \X {0, 1} :
                       /\ (c[2] = 1 => (c[1] <= Len(d) /\ d[c[1]] \in Quotes))
                       /\ AtomsMatchAt(d, c[1] + c[2], atoms)}
       IN IF cands = {} THEN NoMatch
          ELSE
            LET best == CHOOSE c \in cands :
                          \A o \in cands : 2 * c[1] + c[2] >= 2 * o[1] + o[2]
                r == best[1] + best[2]
                q0 == r + Len(atoms)
                e2 == IF q0 <= Len(d) /\ d[q0] = ":" THEN SkipNonQuote(d, q0 + 1) ELSE q0
                hasClose == e2 <= Len(d) /\ d[e2] \in Quotes
            IN [ok |-> TRUE,
                prefix |-> SubSeq(d, p, r - 1),
                close |-> IF hasClose THEN <<d[e2]>> ELSE <<>>,
                end |-> IF hasClose THEN e2 + 1 ELSE e2]

\* String.prototype.replace with a g-flagged expression and the replacement
\* `$1${image}$3`: scanning from p, each match is replaced by group 1, the
\* image and group 3, and the scan resumes where the match ended; characters
\* outside a match are copied. (A match holds `image:`, so it is never empty.)
RECURSIVE ReplaceFrom(_, _, _, _)
ReplaceFrom(d, p, atoms, image) ==
  IF p > Len(d) THEN <<>>
  ELSE LET m == MatchAt(d, p, atoms)
       IN IF m.ok
          THEN m.prefix \o image \o m.close \o ReplaceFrom(d, m.end, atoms, image)
          ELSE <<d[p]>> \o ReplaceFrom(d, p + 1, atoms, image)

\* line 89
imageWithoutTag(image) == Substring(image, 0, IndexOf(image, ":"))

\* lines 89-95 of generateNewStackDefinition: the image rewrite
ImageRewrite(stackDefinition, image) ==
  ReplaceFrom(stackDefinition, 1,
              PatternAtoms(EscapeRegExp(imageWithoutTag(image))), image)

(***************************************************************************)
(* generateNewStackDefinition. The file system and Handlebars are the      *)
(* environment: `fileRead` is what fs.readFileSync does ("throws" or the   *)
(* text read) and `rendered` what the compiled template does ("throws" or  *)
(* the text rendered). The result is the error thrown ("none" if none)     *)
(* and the value returned.                                                 *)
(***************************************************************************)
Throws == [threw |-> TRUE, text |-> <<>>]
Returns(t) == [threw |-> FALSE, text |-> t]

generateNewStackDefinitionSkipRender(stackDefinitionFile, templateVariables, image, fileRead, rendered) ==
  IF stackDefinitionFile = "" THEN [error |-> "none", value |-> Undefined]
  ELSE IF fileRead.threw THEN [error |-> "readFile", value |-> Undefined]
  ELSE IF fileRead.text = <<>> THEN [error |-> "emptyFile", value |-> Undefined]
  ELSE IF image = <<>> THEN [error |-> "none", value |-> Some(fileRead.text)]
  ELSE [error |-> "none", value |-> Some(ImageRewrite(fileRead.text, image))]

\* lines 62-96
generateNewStackDefinition(stackDefinitionFile, templateVariables, image, fileRead, rendered) ==
  IF stackDefinitionFile = "" THEN [error |-> "none", value |-> Undefined]
  ELSE IF fileRead.threw THEN [error |-> "readFile", value |-> Undefined]
  ELSE IF fileRead.text = <<>> THEN [error |-> "emptyFile", value |-> Undefined]
  ELSE IF templateVariables /\ rendered.threw THEN [error |-> "render", value |-> Undefined]
  ELSE LET stackDefinition == IF templateVariables THEN rendered.text ELSE fileRead.text
       IN IF image = <<>> THEN [error |-> "none", value |-> Some(stackDefinition)]
          ELSE [error |-> "none", value |-> Some(ImageRewrite(stackDefinition, image))]

(***************************************************************************)
(* The image rewrite applied to generated documents, once and again.       *)
(***************************************************************************)
Tokens == {Keyword, <<"a">>, <<":">>, <<"\"">>, <<"\n">>, <<" ">>}
Documents == {Str(t) : t \in SeqsUpTo(Tokens, MaxTokens)}
\* repository[:tag]: untagged, tagged, tagged with the tag of the documents
Images == {<<"a">>, <<"a", ":", "b">>, <<"a", ":", "a">>}

RewriteIdle ==
  /\ rwDoc = <<>> /\ rwImage = <<>> /\ rwOnce = <<>> /\ rwTwice = <<>> /\ rwN = 0

MergeIdle ==
  /\ original = <<>> /\ updates = <<>> /\ merged = <<>> /\ mergePc = "idle"

ParseIdle ==
  /\ envText = <<>> /\ parsed = <<>> /\ parsePc = "idle"

DeployIdle ==
  /\ pc = "idle" /\ input = <<>> /\ world = <<>> /\ stackDefinitionToDeploy = Undefined
  /\ allStacks = <<>> /\ existingStack = Undefined /\ calls = <<>>
  /\ authorization = "" /\ error = "none"

RewriteInit ==
  /\ rwDoc \in Documents
  /\ rwImage \in Images
  /\ rwOnce = <<>> /\ rwTwice = <<>> /\ rwN = 0
  /\ MergeIdle /\ DeployIdle /\ ParseIdle

RewriteOnce ==
  /\ rwN = 0
  /\ rwOnce' = ImageRewrite(rwDoc, rwImage)
  /\ rwN' = 1
  /\ UNCHANGED <<rwDoc, rwImage, rwTwice, deployVars, mergeVars, parseVars>>

RewriteAgain ==
  /\ rwN = 1
  /\ rwTwice' = ImageRewrite(rwOnce, rwImage)
  /\ rwN' = 2
  /\ UNCHANGED <<rwDoc, rwImage, rwOnce, deployVars, mergeVars, parseVars>>

RewriteNext == RewriteOnce \/ RewriteAgain

SpecRewrite == RewriteInit /\ [][RewriteNext]_vars

(***************************************************************************)
(* mergeEnvVariables applied to generated sequences.                       *)
(***************************************************************************)
MergeInit ==
  /\ original \in SeqsUpTo(EnvVariable, MaxOriginal)
  /\ updates \in SeqsUpTo(EnvVariable, MaxUpdates)
  /\ merged = <<>> /\ mergePc = "call"
  /\ RewriteIdle /\ DeployIdle /\ ParseIdle

Merge ==
  /\ mergePc = "call"
  /\ merged' = mergeEnvVariables(original, updates)
  /\ mergePc' = "returned"
  /\ UNCHANGED <<original, updates, deployVars, rewriteVars, parseVars>>

MergeNext == Merge

SpecMerge == MergeInit /\ [][MergeNext]_vars

(***************************************************************************)
(* parseEnvVariables. Names and values are texts, as read from the input.  *)
(***************************************************************************)
\* String.prototype.replace(/\\n/g, '\n'): each backslash followed by n
\* becomes a line break
RECURSIVE ReplaceEscapedBreaks(_)
ReplaceEscapedBreaks(s) ==
  IF s = <<>> THEN <<>>
  ELSE IF Len(s) >= 2 /\ s[1] = "\\" /\ s[2] = "n"
       THEN <<"\n">> \o ReplaceEscapedBreaks(SubSeq(s, 3, Len(s)))
       ELSE <<Head(s)>> \o ReplaceEscapedBreaks(Tail(s))

\* String.prototype.trim
Trim(s) ==
  LET kept == {i \in 1..Len(s) : s[i] \notin Whitespace}
  IN IF kept = {} THEN <<>>
     ELSE SubSeq(s, CHOOSE i \in kept : \A j \in kept : i <= j,
                    CHOOSE i \in kept : \A j \in kept : i >= j)

\* String.prototype.split(sep), sep one character: the pieces between the
\* separators; a text without separator is its only piece
RECURSIVE Split(_, _)
Split(s, sep) ==
  LET at == {i \in 1..Len(s) : s[i] = sep}
  IN IF at = {} THEN <<s>>
     ELSE LET b == CHOOSE i \in at : \A j \in at : i <= j
          IN <<SubSeq(s, 1, b - 1)>> \o Split(SubSeq(s, b + 1, Len(s)), sep)

\* Array.prototype.join(sep)
RECURSIVE Join(_, _)
Join(pieces, sep) ==
  IF pieces = <<>> THEN <<>>
  ELSE IF Len(pieces) = 1 THEN pieces[1]
  ELSE pieces[1] \o <<sep>> \o Join(Tail(pieces), sep)

\* lines 35-41 with `const [name, value] = line.split('=')`
ParseLineSecondPiece(line) ==
  LET pieces == Split(line, "=")
  IN [name |-> Trim(pieces[1]),
      value |-> IF Len(pieces) >= 2 THEN Trim(pieces[2]) ELSE <<>>]

\* lines 35-41: one line to one EnvVariable
ParseLine(line) ==
  LET pieces == Split(line, "=")
  IN [name |-> Trim(pieces[1]), value |-> Trim(Join(Tail(pieces), "="))]

\* lines 28-43
parseEnvVariables(envVariables) ==
  LET normalizedEnvVariables == Trim(ReplaceEscapedBreaks(envVariables))
      lines == SelectSeq(Split(normalizedEnvVariables, "\n"), LAMBDA line : Trim(line) # <<>>)
  IN [i \in 1..Len(lines) |-> ParseLine(lines[i])]

EnvTokens == {<<"A">>, <<"1">>, <<"=">>, <<" ">>, <<"\n">>, <<"\\", "n">>}
EnvTexts == {Str(t) : t \in SeqsUpTo(EnvTokens, MaxEnvTokens)}

ParseInit ==
  /\ envText \in EnvTexts
  /\ parsed = <<>> /\ parsePc = "call"
  /\ RewriteIdle /\ MergeIdle /\ DeployIdle

Parse ==
  /\ parsePc = "call"
  /\ parsed' = parseEnvVariables(envText)
  /\ parsePc' = "returned"
  /\ UNCHANGED <<envText, deployVars, rewriteVars, mergeVars>>

ParseNext == Parse

SpecParse == ParseInit /\ [][ParseNext]_vars

(***************************************************************************)
(* deployStack against the PortainerApi client.                            *)
(***************************************************************************)
SWARM == 1
COMPOSE == 2

UndefinedBool == [defined |-> FALSE, val |-> FALSE]
UndefinedString == [defined |-> FALSE, val |-> ""]

StackNames == {"web", "db"}
EndpointIds == {1, 2}
SwarmIds == {"", "swarm-1"}
DefinitionFiles == {"", "stack.yml"}
DeployImages == {<<>>, <<"a", ":", "b">>}
EnvInputs ==
  {Undefined, Some(<<>>),
   Some(<<[name |-> "B", value |-> "2"], [name |-> "A", value |-> "2"]>>)}
\* <<pruneStack, pullImage>>
FlagInputs ==
  {<<UndefinedBool, Some(TRUE)>>, <<Some(TRUE), Some(FALSE)>>, <<Some(FALSE), UndefinedBool>>}

FileText == Str(<<Keyword, <<" ", "\"", "a", ":", "a", "\"", "\n">>, <<"x">>>>)
RenderedText == Str(<<Keyword, <<" ", "a", "\n">>>>)
FileReads == {Throws, Returns(<<>>), Returns(FileText)}
Renders == {Throws, Returns(<<>>), Returns(RenderedText)}

Inputs ==
  {[stackName |-> n, endpointId |-> e, swarmId |-> s, stackDefinitionFile |-> f,
    templateVariables |-> t, envVariables |-> v, image |-> i,
    pruneStack |-> fl[1], pullImage |-> fl[2]] :
     n \in StackNames, e \in EndpointIds, s \in SwarmIds, f \in DefinitionFiles,
     t \in BOOLEAN, v \in EnvInputs, i \in DeployImages, fl \in FlagInputs}

\* the answers of JSON.parse (for the template-variables input), of the file
\* system and of Handlebars; an answer that the run never asks for is fixed
Worlds(inp) ==
  {w \in [json : {"object", "malformed"}, fileRead : FileReads, rendered : Renders] :
     /\ ~inp.templateVariables => w.json = "object"
     /\ (inp.stackDefinitionFile = "" \/ w.json = "malformed") => w.fileRead = Throws
     /\ ~(inp.templateVariables /\ w.json = "object"
            /\ ~w.fileRead.threw /\ w.fileRead.text # <<>>)
          => w.rendered = Throws}

\* what the remote answers to GET /stacks: Env may be missing
RemoteEnvs == {Undefined, Some(<<[name |-> "A", value |-> "1"], [name |-> "B", value |-> "1"]>>)}
StackShapes == [Name : StackNames, EndpointId : EndpointIds, Env : RemoteEnvs]
StackLists ==
  {[i \in 1..Len(l) |-> [Id |-> 100 + i, Name |-> l[i].Name,
                         EndpointId |-> l[i].EndpointId, Env |-> l[i].Env]] :
     l \in SeqsUpTo(StackShapes, MaxStacks)}

Init ==
  /\ pc = "run"
  /\ input \in Inputs
  /\ world \in Worlds(input)
  /\ stackDefinitionToDeploy = Undefined
  /\ allStacks = <<>>
  /\ existingStack = Undefined
  /\ calls = <<>>
  /\ authorization = ""
  /\ error = "none"
  /\ RewriteIdle /\ MergeIdle /\ ParseIdle

TruthyWhenDefined(opt) == opt.defined

\* a string | undefined value is truthy when defined and not empty
Truthy(opt) == opt.defined /\ opt.val # <<>>

\* lines 235-248: run() parses the template-variables input, when there is
\* one, and then calls deployStack
Run ==
  /\ pc = "run"
  /\ IF input.templateVariables /\ world.json = "malformed"
     THEN error' = "config" /\ pc' = "done"
     ELSE error' = error /\ pc' = "start"
  /\ UNCHANGED <<input, world, stackDefinitionToDeploy, allStacks, existingStack, calls,
                 authorization, rewriteVars, mergeVars, parseVars>>

GenerateDefinitionAfterLogin ==
  /\ pc = "start"
  /\ calls' = Append(calls, [op |-> "login", auth |-> authorization])
  /\ authorization' = "Bearer jwt"
  /\ LET r == generateNewStackDefinition(input.stackDefinitionFile, input.templateVariables,
                                         input.image, world.fileRead, world.rendered)
     IN /\ stackDefinitionToDeploy' = r.value
        /\ error' = r.error
        /\ pc' = IF r.error = "none" THEN "getStacks" ELSE "finally"
  /\ UNCHANGED <<input, world, allStacks, existingStack, rewriteVars, mergeVars, parseVars>>

\* lines 112-119
GenerateDefinition ==
  /\ pc = "start"
  /\ LET r == generateNewStackDefinition(input.stackDefinitionFile, input.templateVariables,
                                         input.image, world.fileRead, world.rendered)
     IN /\ stackDefinitionToDeploy' = r.value
        /\ error' = r.error
        /\ pc' = IF r.error = "none" THEN "login" ELSE "done"
  /\ UNCHANGED <<input, world, allStacks, existingStack, calls, authorization,
                 rewriteVars, mergeVars, parseVars>>

LoginWithoutHeader ==
  /\ pc = "login"
  /\ calls' = Append(calls, [op |-> "login", auth |-> authorization])
  /\ \E ok \in BOOLEAN :
       IF ok
       THEN pc' = "getStacks" /\ error' = error
       ELSE pc' = "done" /\ error' = "login"
  /\ UNCHANGED <<input, world, stackDefinitionToDeploy, allStacks, existingStack,
                 authorization, rewriteVars, mergeVars, parseVars>>

\* lines 121-125 and api.ts 41-47: outside the try block
Login ==
  /\ pc = "login"
  /\ calls' = Append(calls, [op |-> "login", auth |-> authorization])
  /\ \E ok \in BOOLEAN :
       IF ok
       THEN /\ authorization' = "Bearer jwt"
            /\ pc' = "getStacks"
            /\ error' = error
       ELSE /\ authorization' = authorization
            /\ pc' = "done"
            /\ error' = "login"
  /\ UNCHANGED <<input, world, stackDefinitionToDeploy, allStacks, existingStack,
                 rewriteVars, mergeVars, parseVars>>

FindOnIdField(stacks, stackName, endpointId) ==
  LET hits == {i \in 1..Len(stacks) :
                 stacks[i].Name = stackName /\ stacks[i].Id = endpointId}
  IN IF hits = {} THEN Undefined
     ELSE Some(stacks[CHOOSE i \in hits : \A j \in hits : i <= j])

FindLast(stacks, stackName, endpointId) ==
  LET hits == {i \in 1..Len(stacks) :
                 stacks[i].Name = stackName /\ stacks[i].EndpointId = endpointId}
  IN IF hits = {} THEN Undefined
     ELSE Some(stacks[CHOOSE i \in hits : \A j \in hits : i >= j])

\* Array.prototype.find: the first element, in order, that satisfies the test
Find(stacks, stackName, endpointId) ==
  LET hits == {i \in 1..Len(stacks) :
                 stacks[i].Name = stackName /\ stacks[i].EndpointId = endpointId}
  IN IF hits = {} THEN Undefined
     ELSE Some(stacks[CHOOSE i \in hits : \A j \in hits : i <= j])

GetStacksOutsideTry ==
  /\ pc = "getStacks"
  /\ calls' = Append(calls, [op |-> "getStacks", auth |-> authorization])
  /\ \/ /\ error' = "getStacks"
        /\ pc' = "done"
        /\ UNCHANGED <<allStacks, existingStack>>
     \/ \E data \in StackLists :
          /\ allStacks' = data
          /\ existingStack' = Find(data, input.stackName, input.endpointId)
          /\ pc' = "reconcile"
          /\ error' = error
  /\ UNCHANGED <<input, world, stackDefinitionToDeploy, authorization,
                 rewriteVars, mergeVars, parseVars>>

\* lines 128-131 and api.ts 55-58
GetStacks ==
  /\ pc = "getStacks"
  /\ calls' = Append(calls, [op |-> "getStacks", auth |-> authorization])
  /\ \/ /\ error' = "getStacks"
        /\ pc' = "finally"
        /\ UNCHANGED <<allStacks, existingStack>>
     \/ \E data \in StackLists :
          /\ allStacks' = data
          /\ existingStack' = Find(data, input.stackName, input.endpointId)
          /\ pc' = "reconcile"
          /\ error' = error
  /\ UNCHANGED <<input, world, stackDefinitionToDeploy, authorization,
                 rewriteVars, mergeVars, parseVars>>

\* lines 137-147: the Env of the stack after the optional merge
UpdatedEnv(stack, envVariables) ==
  IF envVariables.defined
  THEN Some(mergeEnvVariables(IF stack.Env.defined THEN stack.Env.val ELSE <<>>,
                              envVariables.val))
  ELSE stack.Env

OrTrue(flag) == IF flag.defined THEN flag.val ELSE TRUE

\* x ?? false
OrFalse(flag) == IF flag.defined THEN flag.val ELSE FALSE

\* lines 148-159: the updateStack request
UpdateCall(stack, inp, definition, auth) ==
  [op |-> "updateStack", auth |-> auth,
   id |-> stack.Id,
   params |-> [endpointId |-> stack.EndpointId],
   body |-> [env |-> UpdatedEnv(stack, inp.envVariables),
             stackFileContent |-> definition,
             prune |-> OrFalse(inp.pruneStack),
             pullImage |-> OrFalse(inp.pullImage)]]

\* lines 133-160 and api.ts 65-67
UpdateExisting ==
  /\ pc = "reconcile"
  /\ existingStack.defined
  /\ calls' = Append(calls, UpdateCall(existingStack.val, input,
                                       stackDefinitionToDeploy, authorization))
  /\ existingStack' = Some([existingStack.val EXCEPT
                              !.Env = UpdatedEnv(existingStack.val, input.envVariables)])
  /\ \E ok \in BOOLEAN : error' = IF ok THEN error ELSE "updateStack"
  /\ pc' = "finally"
  /\ UNCHANGED <<input, world, stackDefinitionToDeploy, allStacks, authorization,
                 rewriteVars, mergeVars, parseVars>>

\* lines 162-166
MissingDefinition ==
  /\ pc = "reconcile"
  /\ ~existingStack.defined
  /\ ~Truthy(stackDefinitionToDeploy)
  /\ error' = "missingDefinition"
  /\ pc' = "finally"
  /\ UNCHANGED <<input, world, stackDefinitionToDeploy, allStacks, existingStack, calls,
                 authorization, rewriteVars, mergeVars, parseVars>>

CreateCallAlwaysCompose(inp, definition, auth) ==
  LET swarmID == IF inp.swarmId # "" THEN [defined |-> TRUE, val |-> inp.swarmId]
                 ELSE UndefinedString
  IN [op |-> "createStack", auth |-> auth,
      path |-> IF swarmID.defined /\ swarmID.val # ""
               THEN "/stacks/create/swarm/string"
               ELSE "/stacks/create/standalone/string",
      params |-> [type |-> COMPOSE, method |-> "string", endpointId |-> inp.endpointId],
      body |-> [name |-> inp.stackName,
                stackFileContent |-> definition.val,
                swarmID |-> swarmID,
                Env |-> inp.envVariables]]

\* lines 168-180 and api.ts 60-63: the createStack request
CreateCall(inp, definition, auth) ==
  LET swarmID == IF inp.swarmId # "" THEN [defined |-> TRUE, val |-> inp.swarmId]
                 ELSE UndefinedString
  IN [op |-> "createStack", auth |-> auth,
      path |-> IF swarmID.defined /\ swarmID.val # ""
               THEN "/stacks/create/swarm/string"
               ELSE "/stacks/create/standalone/string",
      params |-> [type |-> IF inp.swarmId # "" THEN SWARM ELSE COMPOSE,
                  method |-> "string",
                  endpointId |-> inp.endpointId],
      body |-> [name |-> inp.stackName,
                stackFileContent |-> definition.val,
                swarmID |-> swarmID,
                Env |-> inp.envVariables]]

\* lines 161-182
CreateNew ==
  /\ pc = "reconcile"
  /\ ~existingStack.defined
  /\ Truthy(stackDefinitionToDeploy)
  /\ calls' = Append(calls, CreateCall(input, stackDefinitionToDeploy, authorization))
  /\ \E ok \in BOOLEAN : error' = IF ok THEN error ELSE "createStack"
  /\ pc' = "finally"
  /\ UNCHANGED <<input, world, stackDefinitionToDeploy, allStacks, existingStack,
                 authorization, rewriteVars, mergeVars, parseVars>>

LogoutOnSuccessOnly ==
  /\ pc = "finally"
  /\ IF error = "none"
     THEN /\ calls' = Append(calls, [op |-> "logout", auth |-> authorization])
          /\ authorization' = ""
     ELSE UNCHANGED <<calls, authorization>>
  /\ pc' = "done"
  /\ UNCHANGED <<input, world, stackDefinitionToDeploy, allStacks, existingStack, error,
                 rewriteVars, mergeVars, parseVars>>

LogoutMayFail ==
  /\ pc = "finally"
  /\ calls' = Append(calls, [op |-> "logout", auth |-> authorization])
  /\ authorization' = ""
  /\ error' \in {error, "logout"}
  /\ pc' = "done"
  /\ UNCHANGED <<input, world, stackDefinitionToDeploy, allStacks, existingStack,
                 rewriteVars, mergeVars, parseVars>>

\* lines 183-189 and api.ts 49-53: catch rethrows, finally logs out; logout
\* only clears the header and cannot fail
Logout ==
  /\ pc = "finally"
  /\ calls' = Append(calls, [op |-> "logout", auth |-> authorization])
  /\ authorization' = ""
  /\ pc' = "done"
  /\ UNCHANGED <<input, world, stackDefinitionToDeploy, allStacks, existingStack, error,
                 rewriteVars, mergeVars, parseVars>>

Next ==
  \/ Run
  \/ GenerateDefinition
  \/ Login
  \/ GetStacks
  \/ UpdateExisting
  \/ MissingDefinition
  \/ CreateNew
  \/ Logout

Spec == Init /\ [][Next]_vars

(***************************************************************************)
(* Properties of deployStack (specification Spec).                         *)
(***************************************************************************)
CallsOf(op) == {i \in 1..Len(calls) : calls[i].op = op}

Matches(s) == s.Name = input.stackName /\ s.EndpointId = input.endpointId

MatchingStacks == {i \in 1..Len(allStacks) : Matches(allStacks[i])}

\* getStacks has answered with the list allStacks
Listed == CallsOf("getStacks") # {} /\ pc # "getStacks" /\ error # "getStacks"

\* no document was produced, or an empty one
NoDocument == ~stackDefinitionToDeploy.defined \/ stackDefinitionToDeploy.val = <<>>

\* the reconciliation branch has been taken and has ended
Reconciled == Listed /\ pc \in {"finally", "done"}

\* C1: when the list of remote stacks holds a stack with the name and the
\* endpoint of the input, the run issues one updateStack call and never a
\* createStack call, with or without a stack definition document.
C1_ExistingStackIsUpdated ==
  MatchingStacks # {} =>
    /\ CallsOf("createStack") = {}
    /\ Reconciled => Cardinality(CallsOf("updateStack")) = 1

C1_Witness ==
  /\ pc = "done"
  /\ MatchingStacks # {}
  /\ ~NoDocument
  /\ CallsOf("updateStack") # {}

\* C2: when no remote stack matches and no document was produced, the run
\* raises the missing-document error and issues no createStack call; and
\* every createStack call that is issued carries a non-empty document text.
C2_CreateNeedsDocument ==
  /\ (Reconciled /\ MatchingStacks = {} /\ NoDocument) =>
       (error = "missingDefinition" /\ CallsOf("createStack") = {})
  /\ \A i \in CallsOf("createStack") : calls[i].body.stackFileContent # <<>>

C2_Witness ==
  /\ pc = "done"
  /\ Listed
  /\ MatchingStacks = {}
  /\ ~stackDefinitionToDeploy.defined
  /\ error = "missingDefinition"

\* C3: the stack updated is the first one, in list order, of the getStacks
\* result that has both the name and the endpoint of the input; the call
\* carries its Id and its endpoint; when no stack matches on both, no stack
\* is updated and the run takes the create branch.
C3_FirstMatchOnNameAndEndpoint ==
  /\ \A c \in CallsOf("updateStack") :
       /\ MatchingStacks # {}
       /\ LET first == CHOOSE i \in MatchingStacks : \A j \in MatchingStacks : i <= j
          IN /\ calls[c].id = allStacks[first].Id
             /\ calls[c].params.endpointId = allStacks[first].EndpointId
  /\ (Reconciled /\ MatchingStacks = {}) =>
       /\ CallsOf("updateStack") = {}
       /\ CallsOf("createStack") # {} \/ error = "missingDefinition"

C3_Witness ==
  /\ pc = "done"
  /\ Cardinality(MatchingStacks) >= 2
  /\ CallsOf("updateStack") # {}

\* C4: a run that has entered the reconciliation branch ends with exactly one
\* logout call, issued after the list, create and update calls, whether that
\* branch succeeded or raised.
C4_LogoutExactlyOnce ==
  /\ Cardinality(CallsOf("logout")) <= 1
  /\ \A i \in CallsOf("logout") : i = Len(calls)
  /\ (pc = "done" /\ CallsOf("getStacks") # {}) => Cardinality(CallsOf("logout")) = 1

C4_Witness ==
  /\ pc = "done"
  /\ error = "updateStack"
  /\ Cardinality(CallsOf("logout")) = 1

\* C5 as stated: every run that an error aborts, whatever raised it
\* (authentication and the template render included), has logged out.
C5_Original ==
  (pc = "done" /\ error # "none") => CallsOf("logout") # {}

\* C5, amended: a run that an error of the list, create or update call or of
\* the missing-document check aborts has logged out before the error leaves
\* deployStack.
C5_LogoutOnReconciliationErrors ==
  (pc = "done" /\ error \in {"getStacks", "createStack", "updateStack", "missingDefinition"}) =>
    /\ CallsOf("logout") # {}
    /\ authorization = ""

C5_Witness ==
  /\ pc = "done"
  /\ error = "createStack"
  /\ CallsOf("logout") # {}

(***************************************************************************)
(* Properties of mergeEnvVariables (specification SpecMerge).              *)
(***************************************************************************)
NamesOf(s) == [i \in 1..Len(s) |-> s[i].name]
NameSet(s) == {s[i].name : i \in 1..Len(s)}
ValuesOf(s, n) == {s[i].value : i \in {j \in 1..Len(s) : s[j].name = n}}
FirstIndex(s, n) == CHOOSE i \in 1..Len(s) : s[i].name = n /\ \A j \in 1..(i - 1) : s[j].name # n

\* the elements of a sequence in the order of their first occurrence
RECURSIVE FirstOccurrences(_)
FirstOccurrences(s) ==
  IF s = <<>> THEN <<>>
  ELSE <<Head(s)>> \o FirstOccurrences(SelectSeq(Tail(s), LAMBDA x : x # Head(s)))

OnlyInUpdates == SelectSeq(NamesOf(updates), LAMBDA n : n \notin NameSet(original))

\* the value kept for a name comes from updates when updates has the name,
\* else from original
ValuesFromUpdatesFirst ==
  \A i \in 1..Len(merged) :
    merged[i].value \in (IF merged[i].name \in NameSet(updates)
                         THEN ValuesOf(updates, merged[i].name)
                         ELSE ValuesOf(original, merged[i].name))

\* C9 as stated: every name of original is, in the result, at the position
\* (index) of its first occurrence in original, and the names that only
\* updates has follow in the order of their first occurrence in updates.
C9_Original ==
  mergePc = "returned" =>
    /\ \A n \in NameSet(original) :
         /\ FirstIndex(original, n) <= Len(merged)
         /\ merged[FirstIndex(original, n)].name = n
    /\ \E k \in 0..Len(merged) :
         /\ NameSet(SubSeq(merged, 1, k)) = NameSet(original)
         /\ NamesOf(SubSeq(merged, k + 1, Len(merged))) = FirstOccurrences(OnlyInUpdates)
    /\ ValuesFromUpdatesFirst

\* C9, amended: the result lists the distinct names of original in the order
\* of their first occurrence in original (each with the value from updates
\* when updates has the name, else from original), followed by the names
\* that only updates has, in the order of their first occurrence in updates.
C9_OrderOfFirstOccurrence ==
  mergePc = "returned" =>
    /\ NamesOf(merged) = FirstOccurrences(NamesOf(original)) \o FirstOccurrences(OnlyInUpdates)
    /\ ValuesFromUpdatesFirst

C9_Witness ==
  /\ mergePc = "returned"
  /\ Len(original) = 3
  /\ original[1].name = original[2].name
  /\ original[3].name # original[1].name
  /\ \E i \in 1..Len(updates) :
       updates[i].name = original[1].name /\ updates[i].value \notin ValuesOf(original, original[1].name)
  /\ OnlyInUpdates # <<>>
  /\ Len(merged) = 3

PairwiseDistinctNames(s) == \A i, j \in 1..Len(s) : s[i].name = s[j].name => i = j

\* C10 as stated: merging any sequence with no updates returns it unchanged.
C10_Original ==
  (mergePc = "returned" /\ updates = <<>>) => merged = original

\* C10, amended: merging a sequence whose names are pairwise distinct with no
\* updates returns it unchanged: same length, names, values and order.
C10_EmptyUpdatesKeepDistinctOriginal ==
  (mergePc = "returned" /\ updates = <<>> /\ PairwiseDistinctNames(original)) =>
    merged = original

C10_Witness ==
  /\ mergePc = "returned"
  /\ updates = <<>>
  /\ Len(original) = 3
  /\ PairwiseDistinctNames(original)
  /\ merged = original

(***************************************************************************)
(* Properties of the image rewrite (specification SpecRewrite). What the   *)
(* claims call an `image:` declaration is read off the lines of the        *)
(* document, without the regular expression of the code.                   *)
(***************************************************************************)
Blank == {" ", "\t"}

\* the lines of a text: its pieces between line breaks
RECURSIVE Lines(_)
Lines(d) ==
  LET breaks == {i \in 1..Len(d) : d[i] = "\n"}
  IN IF breaks = {} THEN <<d>>
     ELSE LET b == CHOOSE i \in breaks : \A j \in breaks : i <= j
          IN <<SubSeq(d, 1, b - 1)>> \o Lines(SubSeq(d, b + 1, Len(d)))

\* a line `<blanks>image:<blanks><quote?><reference>...`: where the
\* reference starts and ends (it runs up to a quote, a blank or the line end)
Declaration(line) ==
  LET i1 == SkipWhile(line, 1, Blank)
  IN IF ~HasAt(line, i1, Keyword) THEN [ok |-> FALSE, from |-> 0, to |-> 0]
     ELSE LET i2 == SkipWhile(line, i1 + Len(Keyword), Blank)
              from == IF i2 <= Len(line) /\ line[i2] \in Quotes THEN i2 + 1 ELSE i2
              stop == {i \in from..Len(line) : line[i] \in Quotes \cup Blank}
              to == IF stop = {} THEN Len(line) + 1
                    ELSE CHOOSE i \in stop : \A j \in stop : i <= j
          IN [ok |-> to > from, from |-> from, to |-> to]

\* a reference with any tag removed
Repository(ref) ==
  LET colons == {i \in 1..Len(ref) : ref[i] = ":"}
  IN IF colons = {} THEN ref
     ELSE SubSeq(ref, 1, (CHOOSE i \in colons : \A j \in colons : i <= j) - 1)

\* the line declares an image of the repository of the target image
Declares(line, image) ==
  LET dcl == Declaration(line)
  IN dcl.ok /\ Repository(SubSeq(line, dcl.from, dcl.to - 1)) = Repository(image)

\* the same, unquoted or between two equal quotes
DeclaresWellQuoted(line, image) ==
  LET dcl == Declaration(line)
      open == IF dcl.from >= 2 /\ line[dcl.from - 1] \in Quotes
              THEN <<line[dcl.from - 1]>> ELSE <<>>
      close == IF dcl.to <= Len(line) /\ line[dcl.to] \in Quotes
               THEN <<line[dcl.to]>> ELSE <<>>
  IN Declares(line, image) /\ open = close

BeforeReference(line) == SubSeq(line, 1, Declaration(line).from - 1)
AfterReference(line) == SubSeq(line, Declaration(line).to, Len(line))

\* C6: applying the image rewrite twice with the same target image yields
\* the text that applying it once yields.
C6_Idempotent ==
  rwN = 2 => rwTwice = rwOnce

\* C7: when no line of the document declares an image of the target
\* repository the rewrite returns the document unchanged; and in every case
\* the rewrite changes nothing but the reference of the lines that declare
\* the target repository.
C7_OnlyMatchingReferencesChange ==
  rwN >= 1 =>
    LET before == Lines(rwDoc)
        after == Lines(rwOnce)
    IN /\ (\A i \in 1..Len(before) : ~Declares(before[i], rwImage)) => rwOnce = rwDoc
       /\ Len(after) = Len(before)
       /\ \A i \in 1..Len(before) :
            IF Declares(before[i], rwImage)
            THEN LET pre == BeforeReference(before[i])
                     post == AfterReference(before[i])
                 IN /\ Len(after[i]) >= Len(pre) + Len(post)
                    /\ SubSeq(after[i], 1, Len(pre)) = pre
                    /\ SubSeq(after[i], Len(after[i]) - Len(post) + 1, Len(after[i])) = post
            ELSE after[i] = before[i]

\* C8: every line that declares an image of the target repository, unquoted
\* or quoted, tagged or not, becomes what preceded the reference, the full
\* target image, and what followed the reference (the closing quote); this
\* for every such line of the document.
C8_EveryMatchingLineRewritten ==
  rwN >= 1 =>
    LET before == Lines(rwDoc)
        after == Lines(rwOnce)
    IN \A i \in 1..Len(before) :
         DeclaresWellQuoted(before[i], rwImage) =>
           /\ i <= Len(after)
           /\ after[i] = BeforeReference(before[i]) \o rwImage \o AfterReference(before[i])

(***************************************************************************)
(* Properties of parseEnvVariables (specification SpecParse). The lines of *)
(* the input are read off the text, without split and join.                *)
(***************************************************************************)
\* the text with every backslash-n pair read as a line break
RECURSIVE Unescaped(_)
Unescaped(s) ==
  IF s = <<>> THEN <<>>
  ELSE IF Len(s) >= 2 /\ s[1] = "\\" /\ s[2] = "n"
       THEN <<"\n">> \o Unescaped(SubSeq(s, 3, Len(s)))
       ELSE <<Head(s)>> \o Unescaped(Tail(s))

IsBlank(line) == \A i \in 1..Len(line) : line[i] \in Whitespace

Trimmed(s) ==
  IF IsBlank(s) THEN <<>>
  ELSE LET a == CHOOSE i \in 1..Len(s) :
                  s[i] \notin Whitespace /\ \A j \in 1..(i - 1) : s[j] \in Whitespace
           b == CHOOSE i \in 1..Len(s) :
                  s[i] \notin Whitespace /\ \A j \in (i + 1)..Len(s) : s[j] \in Whitespace
       IN SubSeq(s, a, b)

NonBlankLines(text) == SelectSeq(Lines(Unescaped(text)), LAMBDA line : ~IsBlank(line))

\* position of the first `=` of a line, 0 when it has none
FirstEquals(line) ==
  LET at == {i \in 1..Len(line) : line[i] = "="}
  IN IF at = {} THEN 0 ELSE CHOOSE i \in at : \A j \in at : i <= j

\* C11: parseEnvVariables returns one entry per line that is not blank, in
\* line order and without deduplication; the name is the trimmed text before
\* the first `=`, the value the trimmed text after it (further `=` included);
\* a line without `=` gives the trimmed line as name and the empty value.
C11_OneEntryPerNonBlankLine ==
  parsePc = "returned" =>
    LET lines == NonBlankLines(envText)
    IN /\ Len(parsed) = Len(lines)
       /\ \A i \in 1..Len(lines) :
            LET eq == FirstEquals(lines[i])
            IN IF eq = 0
               THEN parsed[i] = [name |-> Trimmed(lines[i]), value |-> <<>>]
               ELSE parsed[i] = [name |-> Trimmed(SubSeq(lines[i], 1, eq - 1)),
                                 value |-> Trimmed(SubSeq(lines[i], eq + 1, Len(lines[i])))]

C11_Witness ==
  /\ parsePc = "returned"
  /\ Len(parsed) = 2
  /\ parsed[1].name # <<>> /\ parsed[1].value # <<>>
  /\ parsed[2].name # <<>> /\ parsed[2].value = <<>>
  /\ \E i \in 1..(Len(envText) - 1) : envText[i] = "\\" /\ envText[i + 1] = "n"

\* C12: a run that fails on the template-variables JSON, on reading the
\* definition file (unreadable or empty) or on the template render has
\* issued no login, getStacks, createStack or updateStack call.
C12_EarlyFailuresBeforeAuthentication ==
  error \in {"config", "readFile", "emptyFile", "render"} =>
    /\ pc = "done"
    /\ calls = <<>>
    /\ authorization = ""

C12_Witness ==
  /\ pc = "done"
  /\ error = "render"
  /\ calls = <<>>

\* the place of a call in the order authenticate, list, create or update, logout
Rank(op) ==
  CASE op = "login" -> 1
    [] op = "getStacks" -> 2
    [] op \in {"createStack", "updateStack"} -> 3
    [] op = "logout" -> 4

\* C13: the remote calls of a run come in the order authenticate, list
\* stacks, create or update, logout, each at most once and never both create
\* and update; a list, create or update call is issued only with the bearer
\* header that a successful authenticate has set and that logout has not
\* yet cleared.
C13_CausalOrderOfCalls ==
  /\ \A i, j \in 1..Len(calls) : i < j => Rank(calls[i].op) < Rank(calls[j].op)
  /\ \A i \in 1..Len(calls) :
       calls[i].op \in {"getStacks", "createStack", "updateStack"} =>
         /\ calls[i].auth = "Bearer jwt"
         /\ calls[1].op = "login"
  /\ (CallsOf("logout") = {} /\ CallsOf("getStacks") # {}) => authorization = "Bearer jwt"
  /\ CallsOf("logout") # {} => authorization = ""

C13_Witness ==
  /\ pc = "done"
  /\ Len(calls) = 4
  /\ calls[1].op = "login" /\ calls[2].op = "getStacks"
  /\ calls[3].op = "createStack" /\ calls[4].op = "logout"

\* the remote stack that the run updates, as getStacks returned it
FirstMatchingStack ==
  allStacks[CHOOSE i \in MatchingStacks : \A j \in MatchingStacks : i <= j]

\* C14: the env field of an updateStack request is always a sequence of
\* environment variables, the merge of the variables of the existing remote
\* stack (none when the stack has none) with the supplied variables (none
\* when none are supplied).
C14_UpdateCarriesMergedEnv ==
  \A c \in CallsOf("updateStack") :
    /\ calls[c].body.env.defined
    /\ calls[c].body.env.val =
         mergeEnvVariables(
           IF FirstMatchingStack.Env.defined THEN FirstMatchingStack.Env.val ELSE <<>>,
           IF input.envVariables.defined THEN input.envVariables.val ELSE <<>>)

\* C15: an update does not need a document: with a matching stack and no
\* definition file, updateStack is issued without the document field; and
\* the prune and pullImage fields of every updateStack request are the
\* supplied booleans, or false for one that was not supplied.
C15_UpdateWithoutDocumentAndFlags ==
  /\ (Reconciled /\ MatchingStacks # {} /\ input.stackDefinitionFile = "") =>
       /\ error # "missingDefinition"
       /\ \E c \in CallsOf("updateStack") : ~calls[c].body.stackFileContent.defined
  /\ \A c \in CallsOf("updateStack") :
       /\ calls[c].body.prune \in BOOLEAN
       /\ calls[c].body.pullImage \in BOOLEAN
       /\ calls[c].body.prune = (input.pruneStack.defined /\ input.pruneStack.val)
       /\ calls[c].body.pullImage = (input.pullImage.defined /\ input.pullImage.val)

C15_Witness ==
  /\ pc = "done"
  /\ input.stackDefinitionFile = ""
  /\ ~input.pruneStack.defined
  /\ input.pullImage.defined /\ input.pullImage.val
  /\ \E c \in CallsOf("updateStack") :
       /\ ~calls[c].body.stackFileContent.defined
       /\ calls[c].body.prune = FALSE
       /\ calls[c].body.pullImage = TRUE

\* C16: a createStack request has type SWARM, the swarm path and the swarm
\* identifier exactly when a non-empty swarm-id was supplied, and else type
\* COMPOSE, the standalone path and no swarm identifier, whatever the
\* document; so the type and the path always agree.
C16_StackTypeFromSwarmId ==
  \A c \in CallsOf("createStack") :
    IF input.swarmId # ""
    THEN /\ calls[c].params.type = SWARM
         /\ calls[c].path = "/stacks/create/swarm/string"
         /\ calls[c].body.swarmID.defined
         /\ calls[c].body.swarmID.val = input.swarmId
    ELSE /\ calls[c].params.type = COMPOSE
         /\ calls[c].path = "/stacks/create/standalone/string"
         /\ ~calls[c].body.swarmID.defined

C16_Witness ==
  /\ pc = "done"
  /\ input.swarmId # ""
  /\ \E c \in CallsOf("createStack") : calls[c].params.type = SWARM

\* the document of a create or update request (absent: Undefined)
CarriedDocument(c) ==
  IF calls[c].op = "createStack" THEN Some(calls[c].body.stackFileContent)
  ELSE calls[c].body.stackFileContent

\* C17: with neither template variables nor image the document of the create
\* or update request is the text of the definition file; with template
\* variables only it is the rendered text, not rewritten; with an image only
\* it is the rewrite of the file text, not rendered.
C17_OptionalStepsSkipped ==
  \A c \in CallsOf("createStack") \cup CallsOf("updateStack") :
    CarriedDocument(c).defined =>
      /\ (~input.templateVariables /\ input.image = <<>>) =>
           CarriedDocument(c).val = world.fileRead.text
      /\ (input.templateVariables /\ input.image = <<>>) =>
           CarriedDocument(c).val = world.rendered.text
      /\ (~input.templateVariables /\ input.image # <<>>) =>
           CarriedDocument(c).val = ImageRewrite(world.fileRead.text, input.image)

C17_Witness ==
  /\ pc = "done"
  /\ input.templateVariables /\ input.image = <<>>
  /\ \E c \in CallsOf("updateStack") :
       /\ calls[c].body.stackFileContent.defined
       /\ calls[c].body.stackFileContent.val = RenderedText
       /\ RenderedText # world.fileRead.text

\* C18: the error of the first failing step is the one reported: once an
\* error is raised no later step replaces it, and the logout of the cleanup
\* changes neither an error nor a success.
C18_LogoutKeepsTheOutcome ==
  [][(error # "none" \/ pc = "finally") => error' = error]_vars

C18_Witness ==
  /\ pc = "done"
  /\ error = "getStacks"
  /\ CallsOf("logout") # {}

\* the value of the last entry of s named n
LastValue(s, n) ==
  s[CHOOSE i \in 1..Len(s) :
      s[i].name = n /\ \A j \in (i + 1)..Len(s) : s[j].name # n].value

\* C19: for all inputs, repeated names included, the result of
\* mergeEnvVariables has each name at most once, and the value kept for a
\* name is that of its last occurrence in updates if updates has the name,
\* else that of its last occurrence in original.
C19_EachNameOnceWithLastValue ==
  mergePc = "returned" =>
    /\ PairwiseDistinctNames(merged)
    /\ \A i \in 1..Len(merged) :
         merged[i].value =
           IF merged[i].name \in NameSet(updates)
           THEN LastValue(updates, merged[i].name)
           ELSE LastValue(original, merged[i].name)

C19_Witness ==
  /\ mergePc = "returned"
  /\ Len(updates) = 2
  /\ updates[1].name = updates[2].name
  /\ updates[1].value # updates[2].value
  /\ Len(original) = 3
  /\ original[1].name = updates[1].name
  /\ original[2].name = original[3].name
  /\ original[2].name # original[1].name
  /\ original[2].value # original[3].value
  /\ Len(merged) = 2

====
